---- MODULE Spec2Model ----
(***************************************************************************)
(* Model of the three analysis scripts: Top5.py (year validation, ranker), *)
(* Genres.py (year prompt, per-year genre summary) and Artist.py (genre    *)
(* split and aggregate).                                                   *)
(*                                                                         *)
(* Text is a sequence of one-character strings, so that int() and          *)
(* str.split(', ') are computed character by character.  Averages are      *)
(* exact fractions [n |-> numerator, d |-> denominator] in lowest terms.   *)
(***************************************************************************)
EXTENDS Integers, Sequences, FiniteSets, TLC

VARIABLES pc, fn, args, ret, log, frame

vars == <<pc, fn, args, ret, log, frame>>

(* ---------------- bounds of the model ---------------- *)

\* years tried on either side of the accepted range
YearMargin == 2
\* entries typed at the year prompt before the model stops typing
MaxEntries == 3
\* rows of a genre table
MaxRows == 3
\* rows of an artist/year table
MaxArtistRows == 3

(* ---------------- generic helpers ---------------- *)

RECURSIVE GCD(_, _)
GCD(a, b) == IF b = 0 THEN a ELSE GCD(b, a % b)

\* the fraction n/d (n >= 0, d > 0) in lowest terms
Frac(n, d) == LET g == GCD(n, d) IN [n |-> n \div g, d |-> d \div g]

FracAdd(x, y) == Frac(x.n * y.d + y.n * x.d, x.d * y.d)

FracLess(x, y) == x.n * y.d < y.n * x.d

FracLeq(x, y) == x.n * y.d <= y.n * x.d

RECURSIVE FracSum(_)
FracSum(s) == IF s = <<>> THEN Frac(0, 1) ELSE FracAdd(Head(s), FracSum(Tail(s)))

\* Series.mean() of a non-empty column of numbers
FracMean(s) == LET t == FracSum(s) IN Frac(t.n, t.d * Len(s))

RECURSIVE IntSum(_)
IntSum(s) == IF s = <<>> THEN 0 ELSE Head(s) + IntSum(Tail(s))

Range(s) == {s[i] : i \in 1..Len(s)}

\* the sequences over S of length 0..n
RECURSIVE SeqsUpTo(_, _)
SeqsUpTo(S, n) ==
    IF n = 0 THEN {<<>>}
    ELSE LET shorter == SeqsUpTo(S, n - 1)
         IN shorter \cup {Append(s, x) : s \in {t \in shorter : Len(t) = n - 1}, x \in S}

\* what a function call leaves behind: the exception it raised ("" if none),
\* whether it returned None, and the value it returned otherwise
Returned(v) == [exc |-> "", none |-> FALSE, val |-> v]
ReturnedNone == [exc |-> "", none |-> TRUE, val |-> <<>>]
Raised(e) == [exc |-> e, none |-> FALSE, val |-> <<>>]

(* ---------------- Top5.py: validate_years ---------------- *)

MinYear == 1998
MaxYear == 2020

validate_years_strict(start_year, end_year) ==
    IF start_year <= MinYear \/ end_year > MaxYear \/ start_year > end_year
    THEN FALSE
    ELSE TRUE

validate_years(start_year, end_year) ==
    IF start_year < MinYear \/ end_year > MaxYear \/ start_year > end_year
    THEN FALSE
    ELSE TRUE

Years == (MinYear - YearMargin)..(MaxYear + YearMargin)

(* ---------------- Genres.py: input_year ---------------- *)

Digits == <<"0", "1", "2", "3", "4", "5", "6", "7", "8", "9">>

IsDigit(c) == \E i \in 1..10 : Digits[i] = c

DigitVal(c) == (CHOOSE i \in 1..10 : Digits[i] = c) - 1

IsSpace(c) == c = " "

RECURSIVE LStrip(_)
LStrip(s) == IF s # <<>> /\ IsSpace(Head(s)) THEN LStrip(Tail(s)) ELSE s

RECURSIVE RStrip(_)
RStrip(s) ==
    IF s # <<>> /\ IsSpace(s[Len(s)]) THEN RStrip(SubSeq(s, 1, Len(s) - 1)) ELSE s

\* digits with single underscores between them: "2010", "2_010"; not "", "_1", "1__0", "1_"
RECURSIVE DigitsOk(_, _)
DigitsOk(s, afterDigit) ==
    IF s = <<>> THEN afterDigit
    ELSE IF IsDigit(Head(s)) THEN DigitsOk(Tail(s), TRUE)
    ELSE IF Head(s) = "_" THEN afterDigit /\ Tail(s) # <<>> /\ IsDigit(s[2])
                               /\ DigitsOk(Tail(s), FALSE)
    ELSE FALSE

RECURSIVE DigitsVal(_, _)
DigitsVal(s, acc) ==
    IF s = <<>> THEN acc
    ELSE IF Head(s) = "_" THEN DigitsVal(Tail(s), acc)
    ELSE DigitsVal(Tail(s), 10 * acc + DigitVal(Head(s)))

\* int(text): surrounding blanks stripped, an optional sign, base-10 digits;
\* anything else raises ValueError
int(text) ==
    LET t == RStrip(LStrip(text))
        signed == t # <<>> /\ Head(t) \in {"+", "-"}
        body == IF signed THEN Tail(t) ELSE t
    IN IF DigitsOk(body, FALSE)
       THEN [ok |-> TRUE,
             val |-> IF signed /\ Head(t) = "-" THEN 0 - DigitsVal(body, 0)
                     ELSE DigitsVal(body, 0)]
       ELSE [ok |-> FALSE, val |-> 0]

\* what the user may type at the prompt
Entries ==
    { <<"1", "9", "9", "5">>, <<"2", "0", "2", "5">>, <<"2", "0", "0", "5">>,
      <<"1", "9", "9", "8">>, <<"2", "0", "2", "0">>, <<"1", "9", "9", "7">>,
      <<"2", "0", "2", "1">>, <<"a", "b", "c">>, <<>>, <<" ", "2", "0", "1", "0", " ">>,
      <<"2", "0", ".", "5">>, <<"+", "2", "0", "0", "0">>, <<"-", "2", "0", "0", "0">>,
      <<"2", "_", "0", "1", "0">>, <<"2", "0", "1", "0", "_">> }

\* one pass of the while-loop on one typed entry: what is printed, and the
\* value returned if the loop ends
input_year_step_open(entry) ==
    LET a == int(entry)
    IN IF ~a.ok THEN [done |-> FALSE, val |-> 0, out |-> "print:invalid_input"]
       ELSE IF MinYear < a.val /\ a.val <= MaxYear
            THEN [done |-> TRUE, val |-> a.val, out |-> "print:songs_in_year"]
            ELSE [done |-> FALSE, val |-> 0, out |-> "print:not_in_range"]

input_year_step(entry) ==
    LET a == int(entry)
    IN IF ~a.ok THEN [done |-> FALSE, val |-> 0, out |-> "print:invalid_input"]
       ELSE IF MinYear <= a.val /\ a.val <= MaxYear
            THEN [done |-> TRUE, val |-> a.val, out |-> "print:songs_in_year"]
            ELSE [done |-> FALSE, val |-> 0, out |-> "print:not_in_range"]

(* ---------------- genre text ---------------- *)

\* a NULL genre of the database (None in a data frame)
None == <<"None">>

IsNone(g) == g = None

\* code points of the characters genre text is written in
Ord(c) == CASE c = " " -> 32 [] c = "," -> 44 [] c = "P" -> 80
            [] c = "R" -> 82 [] c = "S" -> 83 [] OTHER -> 0

\* a < b as Python compares str
RECURSIVE StrLess(_, _)
StrLess(a, b) ==
    IF b = <<>> THEN FALSE
    ELSE IF a = <<>> THEN TRUE
    ELSE IF Head(a) = Head(b) THEN StrLess(Tail(a), Tail(b))
    ELSE Ord(Head(a)) < Ord(Head(b))

\* the sorted sequence of a finite set of strings
RECURSIVE SortStrs(_)
SortStrs(S) ==
    IF S = {} THEN <<>>
    ELSE LET m == CHOOSE x \in S : \A y \in S \ {x} : StrLess(x, y)
         IN <<m>> \o SortStrs(S \ {m})

\* index of the first occurrence of ", " in s, 0 if there is none
FirstSep(s) ==
    LET hits == {i \in 1..(Len(s) - 1) : s[i] = "," /\ s[i + 1] = " "}
    IN IF hits = {} THEN 0 ELSE CHOOSE i \in hits : \A j \in hits : i <= j

\* s.split(', ')
RECURSIVE str_split(_)
str_split(s) ==
    LET i == FirstSep(s)
    IN IF i = 0 THEN <<s>>
       ELSE <<SubSeq(s, 1, i - 1)>> \o str_split(SubSeq(s, i + 2, Len(s)))

\* the Genre column of the database, as the queries return it
Fields ==
    { <<"P">>,
      <<"P", ",", " ", "R">>,
      <<"P", ",", " ", "P">>,
      <<"P", ",", " ", "R", ",", " ", "S">>,
      <<"P", ",", "R">>,
      <<>>,
      None }

\* both queries GROUP BY Genre: no two rows of a result carry the same Genre
DistinctGenres(t) == \A i, j \in 1..Len(t) : t[i].Genre = t[j].Genre => i = j

(* ---------------- Genres.py: fetch_year_summary_and_plot ---------------- *)

\* AVG(...) and COUNT(...) of one genre of the year, as the query returns them
SummaryMetrics ==
    { [AvgDanceability |-> Frac(1, 2), AvgDuration |-> Frac(200, 1),
       AvgPopularity |-> Frac(80, 1), TotalSongs |-> 2],
      [AvgDanceability |-> Frac(7, 10), AvgDuration |-> Frac(240, 1),
       AvgPopularity |-> Frac(60, 1), TotalSongs |-> 1] }

SummaryRow(g, m) ==
    [Genre |-> g, AvgDanceability |-> m.AvgDanceability, AvgDuration |-> m.AvgDuration,
     AvgPopularity |-> m.AvgPopularity, TotalSongs |-> m.TotalSongs]

SummaryRows == {SummaryRow(g, m) : g \in Fields, m \in SummaryMetrics}

\* the results the query of a year can give, the empty one included
SummaryTables == {t \in SeqsUpTo(SummaryRows, MaxRows) : DistinctGenres(t)}

\* dfSummary['Genre'].str.split(', '): a list of labels per row; a NULL genre
\* stays missing (written as the empty list, which split never produces)
split_genre_column(df) ==
    [i \in 1..Len(df) |->
        [df[i] EXCEPT !.Genre = IF IsNone(@) THEN <<>> ELSE str_split(@)]]

\* the rows one row explodes into: one per element of its list, the other
\* columns copied; a missing list gives one row with a missing Genre
ExplodeRow(r) ==
    IF r.Genre = <<>> THEN <<[r EXCEPT !.Genre = None]>>
    ELSE [k \in 1..Len(r.Genre) |-> [r EXCEPT !.Genre = r.Genre[k]]]

\* dfSummary.explode('Genre')
RECURSIVE explode(_)
explode(df) == IF df = <<>> THEN <<>> ELSE ExplodeRow(Head(df)) \o explode(Tail(df))

\* the rows of df whose Genre is g, in order
RECURSIVE GroupRows(_, _)
GroupRows(df, g) ==
    IF df = <<>> THEN <<>>
    ELSE (IF Head(df).Genre = g THEN <<Head(df)>> ELSE <<>>) \o GroupRows(Tail(df), g)

\* the group keys of groupby('Genre'): missing keys dropped, the rest sorted
GroupKeys(df) == SortStrs({df[i].Genre : i \in 1..Len(df)} \ {None})

\* one row of .agg({...: 'mean', ..., 'TotalSongs': 'sum'})
AggSummaryCount(rows, g) ==
    [Genre |-> g,
     AvgDanceability |-> FracMean([i \in 1..Len(rows) |-> rows[i].AvgDanceability]),
     AvgDuration |-> FracMean([i \in 1..Len(rows) |-> rows[i].AvgDuration]),
     AvgPopularity |-> FracMean([i \in 1..Len(rows) |-> rows[i].AvgPopularity]),
     TotalSongs |-> Len(rows)]

AggSummary(rows, g) ==
    [Genre |-> g,
     AvgDanceability |-> FracMean([i \in 1..Len(rows) |-> rows[i].AvgDanceability]),
     AvgDuration |-> FracMean([i \in 1..Len(rows) |-> rows[i].AvgDuration]),
     AvgPopularity |-> FracMean([i \in 1..Len(rows) |-> rows[i].AvgPopularity]),
     TotalSongs |-> IntSum([i \in 1..Len(rows) |-> rows[i].TotalSongs])]

\* dfSummary.groupby('Genre').agg({...}).reset_index()
groupby_agg(df) ==
    LET keys == GroupKeys(df)
    IN [k \in 1..Len(keys) |-> AggSummary(GroupRows(df, keys[k]), keys[k])]

\* lines 70-80: split, explode, aggregate by unique genre
normalize_summary(dfSummary) == groupby_agg(explode(split_genre_column(dfSummary)))

\* the function on the result dfSummary of its query: the stages it runs,
\* the frame it ends with and what it returns
fetch_year_summary_and_plot_unguarded(dfSummary) ==
    [ret |-> ReturnedNone,
     df  |-> normalize_summary(dfSummary),
     log |-> <<"query", "split", "explode", "groupby", "print:table", "plot:pie">>]

fetch_year_summary_and_plot(dfSummary) ==
    IF dfSummary = <<>>
    THEN [ret |-> ReturnedNone, df |-> dfSummary, log |-> <<"query", "print:no_data">>]
    ELSE [ret |-> ReturnedNone,
          df  |-> normalize_summary(dfSummary),
          log |-> <<"query", "split", "explode", "groupby", "print:table", "plot:pie">>]

(* ---------------- Artist.py: split_and_aggregate ---------------- *)

\* avg_popularity_artist (0 when the artist has no song of the genre) and
\* avg_popularity_overall of one genre, as get_artist_data returns them
ArtistMetrics ==
    { [avg_popularity_artist |-> Frac(80, 1), avg_popularity_overall |-> Frac(60, 1)],
      [avg_popularity_artist |-> Frac(0, 1), avg_popularity_overall |-> Frac(75, 1)] }

ArtistRow(g, m) ==
    [Genre |-> g, avg_popularity_artist |-> m.avg_popularity_artist,
     avg_popularity_overall |-> m.avg_popularity_overall]

ArtistRows == {ArtistRow(g, m) : g \in Fields, m \in ArtistMetrics}

ArtistTables == {t \in SeqsUpTo(ArtistRows, MaxRows) : DistinctGenres(t)}

\* the inner loop: one dict per genre of row['Genre'].split(', ')
SplitRowDivided(r) ==
    LET genres == str_split(r.Genre)
    IN [k \in 1..Len(genres) |->
           [Genre |-> genres[k],
            avg_popularity_artist |->
                Frac(r.avg_popularity_artist.n, r.avg_popularity_artist.d * Len(genres)),
            avg_popularity_overall |->
                Frac(r.avg_popularity_overall.n, r.avg_popularity_overall.d * Len(genres))]]

SplitRow(r) ==
    LET genres == str_split(r.Genre)
    IN [k \in 1..Len(genres) |->
           [Genre |-> genres[k],
            avg_popularity_artist |-> r.avg_popularity_artist,
            avg_popularity_overall |-> r.avg_popularity_overall]]

\* the outer loop over data.iterrows()
RECURSIVE SplitRows(_)
SplitRows(data) == IF data = <<>> THEN <<>> ELSE SplitRow(Head(data)) \o SplitRows(Tail(data))

AggArtist(rows, g) ==
    [Genre |-> g,
     avg_popularity_artist |-> FracMean([i \in 1..Len(rows) |-> rows[i].avg_popularity_artist]),
     avg_popularity_overall |-> FracMean([i \in 1..Len(rows) |-> rows[i].avg_popularity_overall])]

\* df.groupby('Genre', as_index=False).mean()
groupby_mean(df) ==
    LET keys == GroupKeys(df)
    IN [k \in 1..Len(keys) |-> AggArtist(GroupRows(df, keys[k]), keys[k])]

\* None has no split (AttributeError, raised at the first such row); a frame
\* built from no dicts has no 'Genre' column to group by (KeyError)
split_and_aggregate(data) ==
    IF \E i \in 1..Len(data) : IsNone(data[i].Genre) THEN Raised("AttributeError")
    ELSE IF data = <<>> THEN Raised("KeyError")
    ELSE Returned(groupby_mean(SplitRows(data)))

(* ---------------- Top5.py: the ranker ---------------- *)

DefaultTopN == 5

DefaultWeight == Frac(1, 2)

FracMul(x, y) == Frac(x.n * y.n, x.d * y.d)

ArtistNames == {"A", "B", "C"}

QueryYears == {2000, 2001}

\* COUNT(Song.ID) and AVG(Song.Popularity) of one artist in one year
YearMetrics ==
    { [num_songs |-> 10, avg_popularity |-> Frac(50, 1)],
      [num_songs |-> 5, avg_popularity |-> Frac(90, 1)] }

YearRows ==
    { [ArtistName |-> a, Year |-> y, num_songs |-> m.num_songs,
       avg_popularity |-> m.avg_popularity] :
      a \in ArtistNames, y \in QueryYears, m \in YearMetrics }

\* the query groups by ArtistName, Year: one row per artist and year
DistinctArtistYears(t) ==
    \A i, j \in 1..Len(t) :
        (t[i].ArtistName = t[j].ArtistName /\ t[i].Year = t[j].Year) => i = j

\* the results get_artist_data can give for a year range, the empty one included
YearTables == {t \in SeqsUpTo(YearRows, MaxArtistRows) : DistinctArtistYears(t)}

\* the weights and top_n a caller may pass; the scripts pass the defaults
WeightPairs == {<<DefaultWeight, DefaultWeight>>, <<Frac(1, 4), Frac(3, 4)>>}

TopNs == {1, 2, DefaultTopN}

rank_value_of_songs_only(r, weight_x, weight_y) ==
    FracMul(Frac(r.num_songs, 1), weight_x)

\* (num_songs * weight_x) + (avg_popularity * weight_y) of one row
rank_value_of(r, weight_x, weight_y) ==
    FracAdd(FracMul(Frac(r.num_songs, 1), weight_x), FracMul(r.avg_popularity, weight_y))

\* data['rank_value'] = ...
calculate_rank_value(data, weight_x, weight_y) ==
    [i \in 1..Len(data) |->
        [ArtistName |-> data[i].ArtistName, Year |-> data[i].Year,
         num_songs |-> data[i].num_songs, avg_popularity |-> data[i].avg_popularity,
         rank_value |-> rank_value_of(data[i], weight_x, weight_y)]]

\* the rank_value column of the rows of one artist
RECURSIVE RankValuesOf(_, _)
RankValuesOf(data, a) ==
    IF data = <<>> THEN <<>>
    ELSE (IF Head(data).ArtistName = a THEN <<Head(data).rank_value>> ELSE <<>>)
         \o RankValuesOf(Tail(data), a)

\* data['avg_rank_value'] = data.groupby('ArtistName')['rank_value'].transform('mean')
with_avg_rank_value(data) ==
    [i \in 1..Len(data) |->
        [ArtistName |-> data[i].ArtistName, Year |-> data[i].Year,
         num_songs |-> data[i].num_songs, avg_popularity |-> data[i].avg_popularity,
         rank_value |-> data[i].rank_value,
         avg_rank_value |-> FracMean(RankValuesOf(data, data[i].ArtistName))]]

Perms(n) == {p \in [1..n -> 1..n] : \A i, j \in 1..n : p[i] = p[j] => i = j}

\* sort_values(by='avg_rank_value') left ascending
sort_values_ascending(data) ==
    { [i \in 1..Len(data) |-> data[p[i]]] : p \in
        {q \in Perms(Len(data)) :
            \A i, j \in 1..Len(data) :
                i < j => FracLeq(data[q[i]].avg_rank_value, data[q[j]].avg_rank_value)} }

\* sort_values(by='avg_rank_value', ascending=False) with the default
\* kind='quicksort', which is not stable: the rows come out in descending
\* order, rows of equal avg_rank_value in any order
sort_values(data) ==
    { [i \in 1..Len(data) |-> data[p[i]]] : p \in
        {q \in Perms(Len(data)) :
            \A i, j \in 1..Len(data) :
                i < j => FracLeq(data[q[j]].avg_rank_value, data[q[i]].avg_rank_value)} }

\* drop_duplicates('ArtistName'): the first row of each artist is kept
RECURSIVE drop_duplicates(_)
drop_duplicates(data) ==
    IF data = <<>> THEN <<>>
    ELSE LET init == drop_duplicates(SubSeq(data, 1, Len(data) - 1))
             last == data[Len(data)]
         IN IF \E i \in 1..Len(init) : init[i].ArtistName = last.ArtistName
            THEN init ELSE Append(init, last)

head_one_more(data, n) == SubSeq(data, 1, IF n + 1 < Len(data) THEN n + 1 ELSE Len(data))

\* .head(n), n >= 0
head(data, n) == SubSeq(data, 1, IF n < Len(data) THEN n ELSE Len(data))

\* top_artists returned in place of the masked data: one row per artist
RECURSIVE isin_first_rows(_, _)
isin_first_rows(data, names) ==
    IF data = <<>> THEN <<>>
    ELSE LET init == isin_first_rows(SubSeq(data, 1, Len(data) - 1), names)
             last == data[Len(data)]
         IN IF last.ArtistName \in names
               /\ ~\E i \in 1..Len(init) : init[i].ArtistName = last.ArtistName
            THEN Append(init, last) ELSE init

\* data[data['ArtistName'].isin(names)]
RECURSIVE isin_rows(_, _)
isin_rows(data, names) ==
    IF data = <<>> THEN <<>>
    ELSE (IF Head(data).ArtistName \in names THEN <<Head(data)>> ELSE <<>>)
         \o isin_rows(Tail(data), names)

\* the frames get_top_artists may return: one per order the sort may leave
get_top_artists(data, top_n) ==
    LET ranked == with_avg_rank_value(data)
    IN { LET top_artists == head(drop_duplicates(sorted), top_n)
         IN isin_rows(ranked, {top_artists[i].ArtistName : i \in 1..Len(top_artists)}) :
         sorted \in sort_values(ranked) }

\* what get_top_5_artists_by_year_range may do on the result artist_data of
\* its query: it falls off its end after plot_data, so it returns None
get_top_5_artists_by_year_range(artist_data) ==
    IF artist_data = <<>>
    THEN { [ret |-> ReturnedNone, df |-> artist_data, log |-> <<"query", "print:no_data">>] }
    ELSE { [ret |-> ReturnedNone, df |-> top_artists_data,
            log |-> <<"query", "calculate_rank_value", "get_top_artists",
                      "display_table", "plot_data">>] :
           top_artists_data \in
             get_top_artists(calculate_rank_value(artist_data, DefaultWeight, DefaultWeight),
                             DefaultTopN) }

\* plot_top_5_artists_rank_values: top_5_artists is what the call returned
plot_top_5_artists_rank_values(artist_data) ==
    { IF r.ret.none
      THEN [ret |-> ReturnedNone, df |-> r.df, log |-> r.log]
      ELSE [ret |-> ReturnedNone, df |-> r.ret.val,
            log |-> r.log \o <<"print:top_5", "plot:lines", "plot:show">>] :
      r \in get_top_5_artists_by_year_range(artist_data) }

(* ---------------- the state machine ---------------- *)

\* pc:    "idle" (nothing called), "prompt" (input_year waits for an entry),
\*        "done" (the call has ended)
\* fn:    the function called
\* args:  its arguments; data is the table it works on (for the functions
\*        that query the database: the result of their query)
\* ret:   how it ended
\* log:   the stages it ran and what it printed, in order
\* frame: the data frame it had built when it ended

NoArgs ==
    [start_year |-> 0, end_year |-> 0, entries |-> <<>>, data |-> <<>>,
     weight_x |-> DefaultWeight, weight_y |-> DefaultWeight, top_n |-> DefaultTopN,
     again |-> FALSE]

Init ==
    /\ pc = "idle"
    /\ fn = "none"
    /\ args = NoArgs
    /\ ret = ReturnedNone
    /\ log = <<>>
    /\ frame = <<>>

ValidateYears ==
    /\ pc = "idle"
    /\ \E s \in Years, e \in Years :
        /\ args' = [NoArgs EXCEPT !.start_year = s, !.end_year = e]
        /\ ret' = Returned(validate_years(s, e))
    /\ pc' = "done"
    /\ fn' = "validate_years"
    /\ UNCHANGED <<log, frame>>

InputYearCall ==
    /\ pc = "idle"
    /\ pc' = "prompt"
    /\ fn' = "input_year"
    /\ UNCHANGED <<args, ret, log, frame>>

\* one pass of the loop: the user types an entry
InputYearEntry ==
    /\ pc = "prompt"
    /\ Len(args.entries) < MaxEntries
    /\ \E entry \in Entries :
        LET step == input_year_step(entry)
        IN /\ args' = [args EXCEPT !.entries = Append(@, entry)]
           /\ log' = Append(log, step.out)
           /\ pc' = IF step.done THEN "done" ELSE "prompt"
           /\ ret' = IF step.done THEN Returned(step.val) ELSE ret
    /\ UNCHANGED <<fn, frame>>

FetchYearSummaryAndPlot ==
    /\ pc = "idle"
    /\ \E dfSummary \in SummaryTables :
        LET r == fetch_year_summary_and_plot(dfSummary)
        IN /\ args' = [NoArgs EXCEPT !.data = dfSummary]
           /\ ret' = r.ret
           /\ log' = r.log
           /\ frame' = r.df
    /\ pc' = "done"
    /\ fn' = "fetch_year_summary_and_plot"

\* lines 70-80 once more, on the frame they produced
NormalizeSummaryAgain ==
    /\ pc = "done"
    /\ fn = "fetch_year_summary_and_plot"
    /\ args.data # <<>>
    /\ args' = [NoArgs EXCEPT !.data = frame, !.again = TRUE]
    /\ frame' = normalize_summary(frame)
    /\ log' = <<"split", "explode", "groupby">>
    /\ fn' = "normalize_summary"
    /\ UNCHANGED <<pc, ret>>

SplitAndAggregate ==
    /\ pc = "idle"
    /\ \E data \in ArtistTables :
        LET r == split_and_aggregate(data)
        IN /\ args' = [NoArgs EXCEPT !.data = data]
           /\ ret' = r
           /\ frame' = r.val
    /\ pc' = "done"
    /\ fn' = "split_and_aggregate"
    /\ UNCHANGED log

\* split_and_aggregate once more, on the frame it returned
SplitAndAggregateAgain ==
    /\ pc = "done"
    /\ fn = "split_and_aggregate"
    /\ ret.exc = ""
    /\ ~args.again
    /\ LET r == split_and_aggregate(ret.val)
       IN /\ args' = [NoArgs EXCEPT !.data = ret.val, !.again = TRUE]
          /\ ret' = r
          /\ frame' = r.val
    /\ UNCHANGED <<pc, fn, log>>

\* calculate_rank_value, then get_top_artists, as lines 188-189 and 260-261 do
GetTopArtists ==
    /\ pc = "idle"
    /\ \E data \in YearTables, w \in WeightPairs, top_n \in TopNs :
        \E result \in get_top_artists(calculate_rank_value(data, w[1], w[2]), top_n) :
            /\ args' = [NoArgs EXCEPT !.data = data, !.weight_x = w[1],
                                      !.weight_y = w[2], !.top_n = top_n]
            /\ ret' = Returned(result)
            /\ frame' = result
    /\ pc' = "done"
    /\ fn' = "get_top_artists"
    /\ log' = <<"calculate_rank_value", "get_top_artists">>

GetTop5ArtistsByYearRange ==
    /\ pc = "idle"
    /\ \E artist_data \in YearTables :
        \E r \in get_top_5_artists_by_year_range(artist_data) :
            /\ args' = [NoArgs EXCEPT !.data = artist_data]
            /\ ret' = r.ret
            /\ log' = r.log
            /\ frame' = r.df
    /\ pc' = "done"
    /\ fn' = "get_top_5_artists_by_year_range"

PlotTop5ArtistsRankValues ==
    /\ pc = "idle"
    /\ \E artist_data \in YearTables :
        \E r \in plot_top_5_artists_rank_values(artist_data) :
            /\ args' = [NoArgs EXCEPT !.data = artist_data]
            /\ ret' = r.ret
            /\ log' = r.log
            /\ frame' = r.df
    /\ pc' = "done"
    /\ fn' = "plot_top_5_artists_rank_values"

\* the script is run again
Restart ==
    /\ pc # "idle"
    /\ pc' = "idle"
    /\ fn' = "none"
    /\ args' = NoArgs
    /\ ret' = ReturnedNone
    /\ log' = <<>>
    /\ frame' = <<>>

Next ==
    \/ ValidateYears
    \/ InputYearCall
    \/ InputYearEntry
    \/ FetchYearSummaryAndPlot
    \/ NormalizeSummaryAgain
    \/ SplitAndAggregate
    \/ SplitAndAggregateAgain
    \/ GetTopArtists
    \/ GetTop5ArtistsByYearRange
    \/ PlotTop5ArtistsRankValues
    \/ Restart

Spec == Init /\ [][Next]_vars

(* ---------------- C1, C2: the year checks ---------------- *)

\* C1: validate_years(start, end) returns true if and only if
\* 1998 <= start <= end <= 2020.
C1_ValidateYearsIff ==
    (pc = "done" /\ fn = "validate_years") =>
        (ret.val = TRUE <=>
            (1998 <= args.start_year /\ args.start_year <= args.end_year
             /\ args.end_year <= 2020))

C1_Witness ==
    /\ pc = "done" /\ fn = "validate_years"
    /\ args.start_year = 1998 /\ args.end_year = 2020
    /\ ret.val = TRUE

\* an entry that int() accepts and that lies in [1998, 2020]
ClaimValidEntry(entry) == int(entry).ok /\ int(entry).val >= 1998 /\ int(entry).val <= 2020

\* C2: input_year never raises; while no entry typed so far is an integer in
\* [1998, 2020] it keeps prompting, and it returns at the first entry that
\* is one, with exactly that integer.
C2_InputYearFirstValid ==
    (fn = "input_year") =>
        /\ ret.exc = ""
        /\ pc \in {"prompt", "done"}
        /\ pc = "prompt" => \A i \in 1..Len(args.entries) : ~ClaimValidEntry(args.entries[i])
        /\ pc = "done" =>
            LET n == Len(args.entries)
            IN /\ n >= 1
               /\ ClaimValidEntry(args.entries[n])
               /\ \A i \in 1..(n - 1) : ~ClaimValidEntry(args.entries[i])
               /\ ~ret.none
               /\ ret.val = int(args.entries[n]).val
               /\ ret.val \in 1998..2020

C2_Witness ==
    /\ pc = "done" /\ fn = "input_year"
    /\ Len(args.entries) = 3
    /\ ~int(args.entries[1]).ok
    /\ int(args.entries[2]).ok /\ int(args.entries[2]).val > 2020
    /\ ret.val = 1998

(* ---------------- C3, C4, C9: the genre normalizer ---------------- *)

\* the explode/groupby step of fetch_year_summary_and_plot has run on the
\* table args.data and left frame
GenresNormalized ==
    /\ pc = "done"
    /\ fn \in {"fetch_year_summary_and_plot", "normalize_summary"}
    /\ args.data # <<>>

\* split_and_aggregate was called on args.data, a table with at least one
\* row and no NULL genre
ArtistNormalized ==
    /\ pc = "done"
    /\ fn = "split_and_aggregate"
    /\ args.data # <<>>
    /\ \A i \in 1..Len(args.data) : ~IsNone(args.data[i].Genre)

SummaryRates == {"AvgDanceability", "AvgDuration", "AvgPopularity"}

ArtistRates == {"avg_popularity_artist", "avg_popularity_overall"}

\* the labels the genre fields of t split into
ClaimLabels(t) ==
    UNION {Range(str_split(t[i].Genre)) : i \in {j \in 1..Len(t) : ~IsNone(t[j].Genre)}}

\* the rows of t whose genre field contains the label g
ClaimContains(t, g) ==
    {i \in 1..Len(t) : ~IsNone(t[i].Genre) /\ g \in Range(str_split(t[i].Genre))}

ClaimVal(r, col) == IF col = "TotalSongs" THEN Frac(r[col], 1) ELSE r[col]

\* the sum of column col over the rows S of t
RECURSIVE ClaimSum(_, _, _)
ClaimSum(S, t, col) ==
    IF S = {} THEN Frac(0, 1)
    ELSE LET i == CHOOSE x \in S : TRUE
         IN FracAdd(ClaimVal(t[i], col), ClaimSum(S \ {i}, t, col))

\* out has exactly one row per label of inp, with the mean of the rates and
\* the sum of the counts over the rows of inp that contain the label
ClaimAggregates(inp, out, rates, counts) ==
    /\ {out[k].Genre : k \in 1..Len(out)} = ClaimLabels(inp)
    /\ Len(out) = Cardinality(ClaimLabels(inp))
    /\ \A k \in 1..Len(out) :
        LET S == ClaimContains(inp, out[k].Genre)
        IN /\ \A c \in rates :
                LET t == ClaimSum(S, inp, c)
                IN out[k][c] = Frac(t.n, t.d * Cardinality(S))
           /\ \A c \in counts : Frac(out[k][c], 1) = ClaimSum(S, inp, c)

\* C3 as stated: one output row per distinct label; its rates are the mean,
\* its TotalSongs the sum, over the input rows whose genre field contains
\* the label, each such row counted once.
C3_OncePerRow ==
    /\ GenresNormalized =>
        ClaimAggregates(args.data, frame, SummaryRates, {"TotalSongs"})
    /\ ArtistNormalized =>
        ret.exc = "" /\ ClaimAggregates(args.data, ret.val, ArtistRates, {})

\* the average of a column over all rows of a table
ClaimOverallAvg(t, col) == FracMean([i \in 1..Len(t) |-> t[i][col]])

\* every genre field of t is one label
ClaimSingleLabels(t) ==
    \A i \in 1..Len(t) : ~IsNone(t[i].Genre) /\ str_split(t[i].Genre) = <<t[i].Genre>>

\* every rate of every row of out lies between the least and the greatest
\* value of that rate in inp
ClaimWithinInputs(inp, out, rates) ==
    \A k \in 1..Len(out) : \A c \in rates :
        /\ \E i \in 1..Len(inp) : FracLeq(inp[i][c], out[k][c])
        /\ \E i \in 1..Len(inp) : FracLeq(out[k][c], inp[i][c])

\* C4 as stated: the average of a rate over all rows is the same before and
\* after normalization.
C4_AverageConserved ==
    /\ (GenresNormalized /\ frame # <<>>) =>
        \A c \in SummaryRates : ClaimOverallAvg(frame, c) = ClaimOverallAvg(args.data, c)
    /\ ArtistNormalized =>
        /\ ret.exc = ""
        /\ \A c \in ArtistRates : ClaimOverallAvg(ret.val, c) = ClaimOverallAvg(args.data, c)

\* C4 (amended): the average of a rate over all rows is the same before and
\* after normalization when every genre field is a single label; in every
\* case each label's rate lies between the least and the greatest input value.
C4_ConservedForSingleLabels ==
    /\ GenresNormalized =>
        /\ ClaimWithinInputs(args.data, frame, SummaryRates)
        /\ ClaimSingleLabels(args.data) =>
            \A c \in SummaryRates : ClaimOverallAvg(frame, c) = ClaimOverallAvg(args.data, c)
    /\ ArtistNormalized =>
        /\ ret.exc = ""
        /\ ClaimWithinInputs(args.data, ret.val, ArtistRates)
        /\ ClaimSingleLabels(args.data) =>
            \A c \in ArtistRates : ClaimOverallAvg(ret.val, c) = ClaimOverallAvg(args.data, c)

\* two single-label rows of different popularity: the average stays 70
C4_Witness ==
    /\ pc = "done" /\ fn = "fetch_year_summary_and_plot"
    /\ Len(args.data) = 2
    /\ ClaimSingleLabels(args.data)
    /\ args.data[1].AvgPopularity # args.data[2].AvgPopularity
    /\ Len(frame) = 2
    /\ ClaimOverallAvg(frame, "AvgPopularity") = Frac(70, 1)

\* C9: on rows that carry a single label each the normalizer returns the
\* same rows with the same values; on its own output it returns its input.
C9_Idempotent ==
    /\ (GenresNormalized /\ ClaimSingleLabels(args.data)) => Range(frame) = Range(args.data)
    /\ (ArtistNormalized /\ ClaimSingleLabels(args.data)) =>
        ret.exc = "" /\ Range(ret.val) = Range(args.data)
    /\ (pc = "done" /\ fn = "normalize_summary") => frame = args.data
    /\ (pc = "done" /\ fn = "split_and_aggregate" /\ args.again) =>
        ret.exc = "" /\ ret.val = args.data

\* the output of a table with a three-label field, normalized once more
C9_Witness ==
    /\ pc = "done" /\ fn = "normalize_summary"
    /\ Len(args.data) = 3
    /\ frame = args.data
    /\ \E k \in 1..3 : frame[k].TotalSongs = 3

(* ---------------- C5, C6, C10: top-N selection ---------------- *)

\* get_top_artists has returned ret.val for the table args.data
TopArtistsReturned == pc = "done" /\ fn = "get_top_artists" /\ ret.exc = ""

ClaimArtists(t) == {t[i].ArtistName : i \in 1..Len(t)}

\* C5: the result holds rows of at most top_n distinct artists; when the
\* input has fewer than top_n distinct artists all of them are in the
\* result; no input row appears more than once in the result.
C5_AtMostTopN ==
    TopArtistsReturned =>
        /\ Cardinality(ClaimArtists(ret.val)) <= args.top_n
        /\ Cardinality(ClaimArtists(args.data)) < args.top_n =>
            ClaimArtists(ret.val) = ClaimArtists(args.data)
        /\ \A i \in 1..Len(args.data) :
            Cardinality({k \in 1..Len(ret.val) :
                /\ ret.val[k].ArtistName = args.data[i].ArtistName
                /\ ret.val[k].Year = args.data[i].Year
                /\ ret.val[k].num_songs = args.data[i].num_songs
                /\ ret.val[k].avg_popularity = args.data[i].avg_popularity}) <= 1

\* three artists, top_n = 2: two are returned
C5_Witness ==
    /\ TopArtistsReturned
    /\ Cardinality(ClaimArtists(args.data)) = 3
    /\ args.top_n = 2
    /\ Cardinality(ClaimArtists(ret.val)) = 2

\* weight_x * num_songs + weight_y * avg_popularity of row i of t
ClaimRankValue(t, i, weight_x, weight_y) ==
    FracAdd(FracMul(weight_x, Frac(t[i].num_songs, 1)), FracMul(weight_y, t[i].avg_popularity))

RECURSIVE ClaimRankSum(_, _, _, _)
ClaimRankSum(S, t, weight_x, weight_y) ==
    IF S = {} THEN Frac(0, 1)
    ELSE LET i == CHOOSE x \in S : TRUE
         IN FracAdd(ClaimRankValue(t, i, weight_x, weight_y),
                    ClaimRankSum(S \ {i}, t, weight_x, weight_y))

\* the mean of the rank values of all rows of artist a
ClaimAvgRankValue(t, a, weight_x, weight_y) ==
    LET S == {i \in 1..Len(t) : t[i].ArtistName = a}
        total == ClaimRankSum(S, t, weight_x, weight_y)
    IN Frac(total.n, total.d * Cardinality(S))

ClaimAvg(a) == ClaimAvgRankValue(args.data, a, args.weight_x, args.weight_y)

\* C6: every returned row carries rank_value = weight_x * num_songs +
\* weight_y * avg_popularity and the mean of its artist's rank values as
\* avg_rank_value, and no artist left out of the result has a strictly
\* greater avg_rank_value than an artist in the result.
C6_HighestAvgRankValue ==
    TopArtistsReturned =>
        /\ \A k \in 1..Len(ret.val) :
            /\ ret.val[k].rank_value =
                 FracAdd(FracMul(args.weight_x, Frac(ret.val[k].num_songs, 1)),
                         FracMul(args.weight_y, ret.val[k].avg_popularity))
            /\ ret.val[k].avg_rank_value = ClaimAvg(ret.val[k].ArtistName)
        /\ \A left \in ClaimArtists(args.data) \ ClaimArtists(ret.val) :
            \A kept \in ClaimArtists(ret.val) : ~FracLess(ClaimAvg(kept), ClaimAvg(left))

\* A = (10 songs, popularity 50) scores 30, B = (5, 90) scores 47.5 with
\* weights 0.5/0.5; with top_n = 1, B is the one returned
C6_Witness ==
    /\ TopArtistsReturned
    /\ args.weight_x = Frac(1, 2) /\ args.weight_y = Frac(1, 2) /\ args.top_n = 1
    /\ Len(args.data) = 2
    /\ args.data[1].ArtistName = "A" /\ args.data[1].num_songs = 10
    /\ args.data[1].avg_popularity = Frac(50, 1)
    /\ args.data[2].ArtistName = "B" /\ args.data[2].num_songs = 5
    /\ args.data[2].avg_popularity = Frac(90, 1)
    /\ Len(ret.val) = 1
    /\ ret.val[1].ArtistName = "B"
    /\ ret.val[1].rank_value = Frac(95, 2)
    /\ ClaimAvg("A") = Frac(30, 1)

\* the index of the first row of artist a
ClaimFirstRow(t, a) ==
    CHOOSE i \in 1..Len(t) :
        t[i].ArtistName = a /\ \A j \in 1..(i - 1) : t[j].ArtistName # a

\* the artists ranked before a by a stable descending sort: a greater
\* average, or the same average and an earlier first row
ClaimBefore(a) ==
    {b \in ClaimArtists(args.data) \ {a} :
        \/ FracLess(ClaimAvg(a), ClaimAvg(b))
        \/ /\ ClaimAvg(a) = ClaimAvg(b)
           /\ ClaimFirstRow(args.data, b) < ClaimFirstRow(args.data, a)}

\* C10 as stated: ties are broken by input order, so the selected artists
\* are the first top_n of a stable descending sort of the input.
C10_TieByInputOrder ==
    TopArtistsReturned =>
        ClaimArtists(ret.val) =
            {a \in ClaimArtists(args.data) : Cardinality(ClaimBefore(a)) < args.top_n}

ClaimStrictlyGreater(a) ==
    {b \in ClaimArtists(args.data) : FracLess(ClaimAvg(a), ClaimAvg(b))}

ClaimGreaterOrEqual(a) ==
    {b \in ClaimArtists(args.data) \ {a} : FracLeq(ClaimAvg(a), ClaimAvg(b))}

\* C10 (amended): min(top_n, number of artists) artists are selected; an
\* artist with fewer than top_n others at or above its average is selected,
\* an artist with top_n or more strictly above it is not; among artists tied
\* at the cutoff any may be selected, whatever the input order.
C10_TieAnyOrder ==
    TopArtistsReturned =>
        LET all == ClaimArtists(args.data)
            sel == ClaimArtists(ret.val)
        IN /\ Cardinality(sel) =
                IF args.top_n < Cardinality(all) THEN args.top_n ELSE Cardinality(all)
           /\ \A a \in all : Cardinality(ClaimGreaterOrEqual(a)) < args.top_n => a \in sel
           /\ \A a \in sel : Cardinality(ClaimStrictlyGreater(a)) < args.top_n

\* A and B tie, A comes first in the input, top_n = 1, and B is selected
C10_Witness ==
    /\ TopArtistsReturned
    /\ args.top_n = 1
    /\ Len(args.data) = 2
    /\ args.data[1].ArtistName = "A" /\ args.data[2].ArtistName = "B"
    /\ ClaimAvg("A") = ClaimAvg("B")
    /\ ClaimArtists(ret.val) = {"B"}

(* ---------------- C7, C8: empty and non-empty query results ---------------- *)

ClaimDownstream ==
    {"split", "explode", "groupby", "print:table", "plot:pie",
     "calculate_rank_value", "get_top_artists", "display_table", "plot_data",
     "print:top_5", "plot:lines", "plot:show"}

\* C7: when the query returns no rows, each pipeline prints its "no data"
\* message, raises nothing and runs none of its downstream stages.
C7_NoDataHalts ==
    (/\ pc = "done"
     /\ fn \in {"fetch_year_summary_and_plot", "get_top_5_artists_by_year_range",
                "plot_top_5_artists_rank_values"}
     /\ args.data = <<>>) =>
        /\ ret.exc = ""
        /\ "print:no_data" \in Range(log)
        /\ Range(log) \cap ClaimDownstream = {}

C7_Witness ==
    /\ pc = "done"
    /\ fn = "fetch_year_summary_and_plot"
    /\ args.data = <<>>
    /\ log = <<"query", "print:no_data">>

\* C8: when the query returns at least one row, get_top_5_artists_by_year_range
\* returns the top artists' data, not None, and plot_top_5_artists_rank_values
\* goes on to print and plot it.
C8_ReturnsTopArtists ==
    /\ (pc = "done" /\ fn = "get_top_5_artists_by_year_range" /\ args.data # <<>>) =>
        ~ret.none
    /\ (pc = "done" /\ fn = "plot_top_5_artists_rank_values" /\ args.data # <<>>) =>
        {"print:top_5", "plot:lines", "plot:show"} \subseteq Range(log)

(* ---------------- C11: the rows get_top_artists returns ---------------- *)

\* the columns of a returned row that the input row has too
ClaimInputColumns(r) ==
    [ArtistName |-> r.ArtistName, Year |-> r.Year, num_songs |-> r.num_songs,
     avg_popularity |-> r.avg_popularity]

\* the input rows of the artists that appear in the result
ClaimSelectedRows == {i \in 1..Len(args.data) : args.data[i].ArtistName \in ClaimArtists(ret.val)}

\* C11: the result is exactly the input rows whose ArtistName is selected,
\* every year of each selected artist, in input order, and no other row.
C11_AllRowsOfSelected ==
    TopArtistsReturned =>
        /\ Len(ret.val) = Cardinality(ClaimSelectedRows)
        /\ \A k \in 1..Len(ret.val) :
            \E i \in ClaimSelectedRows :
                /\ Cardinality({j \in ClaimSelectedRows : j < i}) = k - 1
                /\ ClaimInputColumns(ret.val[k]) = args.data[i]
        /\ \A i \in 1..Len(args.data) :
            args.data[i].ArtistName \notin ClaimArtists(ret.val) =>
                \A k \in 1..Len(ret.val) : ClaimInputColumns(ret.val[k]) # args.data[i]

\* A has two years, B one; top_n = 1 selects A and both of its rows come back
C11_Witness ==
    /\ TopArtistsReturned
    /\ args.top_n = 1
    /\ Len(args.data) = 3
    /\ ClaimArtists(args.data) = {"A", "B"}
    /\ Len(ret.val) = 2
    /\ ret.val[1].ArtistName = "A" /\ ret.val[2].ArtistName = "A"
    /\ ret.val[1].Year # ret.val[2].Year

(* ---------------- C12: empty and NULL genre fields ---------------- *)

\* the rows of t whose genre field is neither NULL nor empty
ClaimLabelledRows(t) == {i \in 1..Len(t) : ~IsNone(t[i].Genre) /\ t[i].Genre # <<>>}

\* the normalizer was run on a table with an empty or NULL genre field
ClaimBlankGenreNormalized ==
    /\ pc = "done"
    /\ fn \in {"fetch_year_summary_and_plot", "normalize_summary", "split_and_aggregate"}
    /\ \E i \in 1..Len(args.data) : IsNone(args.data[i].Genre) \/ args.data[i].Genre = <<>>

\* C12: on a row whose genre field is empty or NULL neither normalizer
\* raises; the row is skipped or forms a group of its own, and every label
\* of the remaining rows still has its output row.
C12_BlankGenreNoCrash ==
    ClaimBlankGenreNormalized =>
        /\ ret.exc = ""
        /\ LET out == IF fn = "split_and_aggregate" THEN ret.val ELSE frame
               rest == UNION {Range(str_split(args.data[i].Genre)) :
                                i \in ClaimLabelledRows(args.data)}
           IN /\ rest \subseteq {out[k].Genre : k \in 1..Len(out)}
              /\ \A k \in 1..Len(out) : out[k].Genre \in rest \cup {<<>>}

====
